---- MODULE Spec2Model ----
(***************************************************************************)
(* Model of the healthcare assessment client: makeRequest (the two-counter *)
(* retry loop), fetchAllPatients (the pagination loop), submitAssessment   *)
(* and main.  The program is one sequential async function chain; the only *)
(* suspension points are the HTTP request (await axios) and the timed      *)
(* delays.  A step of the model is "a response arrives and the code runs   *)
(* up to the next HTTP request (or to the end of the process)"; the timed  *)
(* delays change no state and are not modelled.                            *)
(***************************************************************************)
EXTENDS Integers, Sequences, FiniteSets, TLC

VARIABLES
    pc,                 \* where the thread is suspended: "call" (a bare makeRequest),
                        \* "fetch" (in fetchAllPatients), "main" (fetchAllPatients returned),
                        \* "submit" (in submitAssessment),
                        \* "returned" / "thrown" (bare makeRequest ended), "exit" (process ended),
                        \* "process" (in the forEach of a bare processPatients call),
                        \* "processed" (that call returned)
    request,            \* the HTTP request in flight
    maxRetries,         \* makeRequest: third parameter
    attempt,            \* makeRequest: let attempt
    rateLimitAttempts,  \* makeRequest: let rateLimitAttempts
    reqValue,           \* what the last ended makeRequest returned or threw
    page,               \* fetchAllPatients: let page
    hasMore,            \* fetchAllPatients: let hasMore
    allPatients,        \* fetchAllPatients: let allPatients
    fetchOutcome,       \* "pending", "returned" or "raised"
    results,            \* main: const results (<<>> until processPatients has run)
    exitCode,           \* process exit status (-1 while running)
    server,             \* the server: free, or holding three pages and a script of
                        \* the failures it answers the requests for page 2 with
    lastTurn,           \* history: how the last turn of the fetch loop ended ("none",
                        \* "fetched": makeRequest returned, "failed": makeRequest threw)
    delivered,          \* history: the record lists the server delivered in successful pages
    submitCalls,        \* history: number of calls of submitAssessment
    hist,               \* history of a bare makeRequest call
    patientsArg,        \* processPatients: parameter patients
    cursor,             \* processPatients: number of elements forEach has visited
    highRiskPatients,   \* processPatients: const highRiskPatients
    feverPatients,      \* processPatients: const feverPatients
    dataQualityIssues,  \* processPatients: const dataQualityIssues
    callback            \* the constants of the last run of the forEach callback, and
                        \* history: on which lists it pushed the patient_id

\* the frame of a processPatients call that is stepped through element by element
scoringVars == <<patientsArg, cursor, highRiskPatients, feverPatients, dataQualityIssues,
                 callback>>

vars == <<pc, request, maxRetries, attempt, rateLimitAttempts, reqValue, page, hasMore,
          allPatients, fetchOutcome, results, exitCode, server, lastTurn, delivered,
          submitCalls, hist, patientsArg, cursor, highRiskPatients, feverPatients,
          dataQualityIssues, callback>>

(***************************************************************************)
(* Bounds of the model.                                                    *)
(***************************************************************************)
\* largest maxRetries argument explored for a bare makeRequest call
MaxRetriesArg == 4
\* page numbers from MaxPage on are represented by MaxPage (the code compares
\* page only with the safety limit); the server holds full pages below MaxPage
MaxPage == 16
\* the server answers the requests for pages 1..MaxVaried freely; a later page
\* is answered as the page before it was (a full page, or no page at all), or
\* with an answer that ends the fetch
MaxVaried == 4

(***************************************************************************)
(* Program constants.                                                      *)
(***************************************************************************)
DefaultMaxRetries == 3
maxRateLimitRetries == 8
PageLimit == 5
SafetyLimit == 15

\* no callback has run
NoCallback ==
    [listed |-> FALSE,
     bpRisk |-> [score |-> 0, hasIssue |-> FALSE],
     tempRisk |-> [score |-> 0, hasIssue |-> FALSE],
     ageRisk |-> [score |-> 0, hasIssue |-> FALSE],
     totalScore |-> 0,
     temp |-> [nan |-> TRUE, v |-> 0],
     pushed |-> [high |-> FALSE, fever |-> FALSE, issue |-> FALSE]]
\* no processPatients call is stepped through
NoScoring ==
    /\ patientsArg = <<>>
    /\ cursor = 0
    /\ highRiskPatients = <<>>
    /\ feverPatients = <<>>
    /\ dataQualityIssues = <<>>
    /\ callback = NoCallback

(***************************************************************************)
(* JSON bodies.  A body is falsy (null, "", 0) or truthy; a truthy body is *)
(* a bare array or an object whose data / patients properties may hold an  *)
(* array.                                                                  *)
(***************************************************************************)
NotArray == [isArray |-> FALSE, items |-> <<>>]
Arr(s) == [isArray |-> TRUE, items |-> s]
NullBody == [truthy |-> FALSE, isArray |-> FALSE, items |-> <<>>,
             data |-> NotArray, patients |-> NotArray]
ArrayBody(s) == [truthy |-> TRUE, isArray |-> TRUE, items |-> s,
                 data |-> NotArray, patients |-> NotArray]
ObjectBody(d, p) == [truthy |-> TRUE, isArray |-> FALSE, items |-> <<>>,
                     data |-> d, patients |-> p]

\* HTTP statuses of failed requests; 0 stands for "no response" (network error,
\* error.response undefined)
ErrorStatuses == {0, 400, 404, 429, 500, 502, 503}

NoRequest == [endpoint |-> "none", page |-> 0, data |-> <<>>]
PatientsRequest(p) == [endpoint |-> "patients", page |-> p, data |-> <<>>]
SubmitRequest(r) == [endpoint |-> "submit", page |-> 0, data |-> r]

NoValue == [kind |-> "none", status |-> 0, body |-> NullBody]

\* a server that answers every request as it likes
FreeServer == [scripted |-> FALSE, last |-> 0, plan |-> <<>>, failures |-> <<>>]
\* the server after it answered a request with a failure
AfterFailure(srv) ==
    IF srv.scripted THEN [srv EXCEPT !.failures = Tail(@)] ELSE srv

(***************************************************************************)
(* makeRequest (apiClient.js 12-88).                                       *)
(***************************************************************************)
\* the while condition (line 26)
WhileGuard_AttemptBelowMax(att, rl, max) ==
    att < max \/ (rl > 0 /\ rl < maxRateLimitRetries)
WhileGuard(att, rl, max) ==
    att <= max \/ (rl > 0 /\ rl < maxRateLimitRetries)

\* the factors of the two backoff delays, in milliseconds (lines 41, 56)
RateLimitDelay == 3000
ServerErrorDelay == 1000

\* a 429 (lines 37-47): rateLimitAttempts is incremented, attempt is not; the
\* delay before the next request is 3000ms times the incremented counter
OnRateLimited_CountsAttempt(att, rl) ==
    IF rl + 1 <= maxRateLimitRetries
    THEN [attempt |-> att + 1, rateLimitAttempts |-> rl + 1, next |-> "continue",
          delay |-> RateLimitDelay * (rl + 1)]
    ELSE [attempt |-> att, rateLimitAttempts |-> rl + 1, next |-> "throw", delay |-> 0]
OnRateLimited_OffByOne(att, rl) ==
    IF rl + 1 <= maxRateLimitRetries + 1
    THEN [attempt |-> att, rateLimitAttempts |-> rl + 1, next |-> "continue",
          delay |-> RateLimitDelay * (rl + 1)]
    ELSE [attempt |-> att, rateLimitAttempts |-> rl + 1, next |-> "throw", delay |-> 0]
OnRateLimited_DelayBeforeIncrement(att, rl) ==
    IF rl + 1 <= maxRateLimitRetries
    THEN [attempt |-> att, rateLimitAttempts |-> rl + 1, next |-> "continue",
          delay |-> RateLimitDelay * rl]
    ELSE [attempt |-> att, rateLimitAttempts |-> rl + 1, next |-> "throw", delay |-> 0]
OnRateLimited(att, rl) ==
    IF rl + 1 <= maxRateLimitRetries
    THEN [attempt |-> att, rateLimitAttempts |-> rl + 1, next |-> "continue",
          delay |-> RateLimitDelay * (rl + 1)]
    ELSE [attempt |-> att, rateLimitAttempts |-> rl + 1, next |-> "throw", delay |-> 0]

\* a 500, 502 or 503 (lines 50, 53-63): the delay before the next request is
\* 1000ms times attempt as it is before the increment
OnServerError_RetryAtLimit(att, max) ==
    IF att <= max
    THEN [attempt |-> att + 1, rateLimitAttempts |-> 0, next |-> "continue",
          delay |-> ServerErrorDelay * att]
    ELSE [attempt |-> att, rateLimitAttempts |-> 0, next |-> "throw", delay |-> 0]
OnServerError_DelayAfterIncrement(att, max) ==
    IF att < max
    THEN [attempt |-> att + 1, rateLimitAttempts |-> 0, next |-> "continue",
          delay |-> ServerErrorDelay * (att + 1)]
    ELSE [attempt |-> att, rateLimitAttempts |-> 0, next |-> "throw", delay |-> 0]
OnServerError(att, max) ==
    IF att < max
    THEN [attempt |-> att + 1, rateLimitAttempts |-> 0, next |-> "continue",
          delay |-> ServerErrorDelay * att]
    ELSE [attempt |-> att, rateLimitAttempts |-> 0, next |-> "throw", delay |-> 0]

\* any other failure (lines 50, 65-82): status 0 is "no response"; the retry of
\* line 82 is made without a delay
OnOtherError_NeverRetries(att, max, status) ==
    [attempt |-> att, rateLimitAttempts |-> 0, next |-> "throw", delay |-> 0]
OnOtherError_RetriesAnyStatus(att, max, status) ==
    IF att >= max
    THEN [attempt |-> att, rateLimitAttempts |-> 0, next |-> "throw", delay |-> 0]
    ELSE [attempt |-> att + 1, rateLimitAttempts |-> 0, next |-> "continue", delay |-> 0]
OnOtherError(att, max, status) ==
    IF att >= max
    THEN [attempt |-> att, rateLimitAttempts |-> 0, next |-> "throw", delay |-> 0]
    ELSE IF status # 0 /\ status \notin {429, 500, 502, 503}
    THEN [attempt |-> att, rateLimitAttempts |-> 0, next |-> "throw", delay |-> 0]
    ELSE [attempt |-> att + 1, rateLimitAttempts |-> 0, next |-> "continue", delay |-> 0]

\* the catch block (lines 33-83) for a failed request with the given status:
\* the counters after it, and whether it throws or reaches the loop's next turn
CatchError(att, rl, max, status) ==
    IF status = 429 THEN OnRateLimited(att, rl)
    ELSE IF status \in {500, 502, 503} THEN OnServerError(att, max)
    ELSE OnOtherError(att, max, status)

\* one turn of the loop from the arrival of the response to the request: the
\* call returns the body, throws the error, or issues the request again
\* ("retry"); when the while condition fails the function falls through to
\* the throw of line 87
MakeRequestStep(att, rl, max, resp) ==
    IF resp.status = 200
    THEN [outcome |-> "return", attempt |-> att, rateLimitAttempts |-> rl,
          status |-> 200, body |-> resp.body, fellThrough |-> FALSE, delay |-> 0]
    ELSE LET c == CatchError(att, rl, max, resp.status) IN
         IF c.next = "throw"
         THEN [outcome |-> "throw", attempt |-> c.attempt,
               rateLimitAttempts |-> c.rateLimitAttempts,
               status |-> resp.status, body |-> NullBody, fellThrough |-> FALSE,
               delay |-> 0]
         ELSE IF WhileGuard(c.attempt, c.rateLimitAttempts, max)
         THEN [outcome |-> "retry", attempt |-> c.attempt,
               rateLimitAttempts |-> c.rateLimitAttempts,
               status |-> resp.status, body |-> NullBody, fellThrough |-> FALSE,
               delay |-> c.delay]
         ELSE [outcome |-> "throw", attempt |-> c.attempt,
               rateLimitAttempts |-> c.rateLimitAttempts,
               status |-> resp.status, body |-> NullBody, fellThrough |-> TRUE,
               delay |-> c.delay]

ErrorResponses == {[status |-> s, body |-> NullBody] : s \in ErrorStatuses}

\* the value a finished call hands to its caller
ValueOf(st) ==
    [kind |-> IF st.outcome = "return" THEN "data"
              ELSE IF st.fellThrough THEN "fallthrough" ELSE "error",
     status |-> st.status, body |-> st.body]

\* history of a bare call: requests issued, failed requests that were not 429s,
\* retries made because of a 429 (in the whole call and in the current
\* consecutive run of 429s), the status and the body of the last response, and
\* the delay (ms) the call waited after it before it went on
NoHist == [requests |-> 0, failures |-> 0, rateLimitRetries |-> 0,
           runRetries |-> 0, lastStatus |-> -1, lastBody |-> NullBody, lastDelay |-> 0]
Track(h, st) ==
    [requests |-> IF st.outcome = "retry" THEN h.requests + 1 ELSE h.requests,
     failures |-> IF st.status \notin {200, 429} THEN h.failures + 1 ELSE h.failures,
     rateLimitRetries |-> IF st.status = 429 /\ st.outcome = "retry"
                          THEN h.rateLimitRetries + 1 ELSE h.rateLimitRetries,
     runRetries |-> IF st.status = 429
                    THEN (IF st.outcome = "retry" THEN h.runRetries + 1 ELSE h.runRetries)
                    ELSE 0,
     lastStatus |-> st.status,
     lastBody |-> st.body,
     lastDelay |-> st.delay]

\* a failed response after which makeRequest issues the request again
\* (lines 39-42, 54-58, 82); the caller is not resumed
ReqRetryOn(responses) ==
    /\ pc \in {"call", "fetch", "submit"}
    /\ \E r \in responses :
         LET st == MakeRequestStep(attempt, rateLimitAttempts, maxRetries, r) IN
         /\ st.outcome = "retry"
         /\ attempt' = st.attempt
         /\ rateLimitAttempts' = st.rateLimitAttempts
         /\ hist' = IF pc = "call" THEN Track(hist, st) ELSE hist
    /\ server' = AfterFailure(server)
    /\ UNCHANGED <<pc, request, maxRetries, reqValue, page, hasMore, allPatients,
                   fetchOutcome, results, exitCode, lastTurn, delivered, submitCalls>>
    /\ UNCHANGED scoringVars
ReqRetry == ReqRetryOn(ErrorResponses)

\* a bare call: the response is a success and makeRequest returns its data (line 32)
ReqReturn ==
    /\ pc = "call"
    /\ \E b \in {ArrayBody(<<>>), ObjectBody(NotArray, NotArray), NullBody} :
         LET st == MakeRequestStep(attempt, rateLimitAttempts, maxRetries,
                                   [status |-> 200, body |-> b]) IN
         /\ st.outcome = "return"
         /\ pc' = "returned"
         /\ reqValue' = ValueOf(st)
         /\ attempt' = st.attempt
         /\ rateLimitAttempts' = st.rateLimitAttempts
         /\ hist' = Track(hist, st)
    /\ request' = NoRequest
    /\ UNCHANGED <<maxRetries, page, hasMore, allPatients, fetchOutcome, results,
                   exitCode, server, lastTurn, delivered, submitCalls>>
    /\ UNCHANGED scoringVars

\* a bare call: the response is a failure that makeRequest throws (lines 45, 61, 74, 79, 87)
ReqThrow ==
    /\ pc = "call"
    /\ \E r \in ErrorResponses :
         LET st == MakeRequestStep(attempt, rateLimitAttempts, maxRetries, r) IN
         /\ st.outcome = "throw"
         /\ pc' = "thrown"
         /\ reqValue' = ValueOf(st)
         /\ attempt' = st.attempt
         /\ rateLimitAttempts' = st.rateLimitAttempts
         /\ hist' = Track(hist, st)
    /\ request' = NoRequest
    /\ UNCHANGED <<maxRetries, page, hasMore, allPatients, fetchOutcome, results,
                   exitCode, server, lastTurn, delivered, submitCalls>>
    /\ UNCHANGED scoringVars

\* a bare call makeRequest(endpoint, options, m): the counters are initialised
\* (lines 22-23) and, m being at least 1, the loop is entered and the first
\* request issued
InitReq ==
    /\ maxRetries \in 1..MaxRetriesArg
    /\ pc = "call"
    /\ request = PatientsRequest(1)
    /\ attempt = 1
    /\ rateLimitAttempts = 0
    /\ reqValue = NoValue
    /\ page = 1
    /\ hasMore = TRUE
    /\ allPatients = <<>>
    /\ fetchOutcome = "pending"
    /\ results = <<>>
    /\ exitCode = -1
    /\ server = FreeServer
    /\ lastTurn = "none"
    /\ delivered = <<>>
    /\ submitCalls = 0
    /\ hist = [NoHist EXCEPT !.requests = 1]
    /\ NoScoring

NextReq == ReqRetry \/ ReqReturn \/ ReqThrow

SpecReq == InitReq /\ [][NextReq]_vars

(***************************************************************************)
(* JavaScript values of the record fields (riskScoring.js).  A string is   *)
(* the sequence of its characters; a number is held in hundredths (99.6 is *)
(* 9960), which is exact for the values the model draws.                   *)
(***************************************************************************)
Undefined == [t |-> "undefined", s |-> <<>>, n |-> 0]
Null == [t |-> "null", s |-> <<>>, n |-> 0]
Str(chars) == [t |-> "str", s |-> chars, n |-> 0]
Num(hundredths) == [t |-> "num", s |-> <<>>, n |-> hundredths]

\* the result of a numeric parse: NaN or a number in hundredths
NaN == [nan |-> TRUE, v |-> 0]
Number(h) == [nan |-> FALSE, v |-> h]

\* JavaScript truthiness of a value
Truthy(x) ==
    CASE x.t = "str" -> x.s # <<>>
      [] x.t = "num" -> x.n # 0
      [] OTHER -> FALSE

Digits == {"0", "1", "2", "3", "4", "5", "6", "7", "8", "9"}
IsDigit(c) == c \in Digits
DigitVal(c) ==
    CASE c = "0" -> 0 [] c = "1" -> 1 [] c = "2" -> 2 [] c = "3" -> 3 [] c = "4" -> 4
      [] c = "5" -> 5 [] c = "6" -> 6 [] c = "7" -> 7 [] c = "8" -> 8 [] c = "9" -> 9
Spaces == {" ", "\t", "\n"}
IsSpace(c) == c \in Spaces

Lower == <<"a", "b", "c", "d", "e", "f", "g", "h", "i", "j", "k", "l", "m",
           "n", "o", "p", "q", "r", "s", "t", "u", "v", "w", "x", "y", "z">>
Upper == <<"A", "B", "C", "D", "E", "F", "G", "H", "I", "J", "K", "L", "M",
           "N", "O", "P", "Q", "R", "S", "T", "U", "V", "W", "X", "Y", "Z">>
\* String.prototype.toUpperCase
toUpperCase(s) ==
    [i \in 1..Len(s) |->
        IF \E k \in 1..26 : Lower[k] = s[i]
        THEN Upper[CHOOSE k \in 1..26 : Lower[k] = s[i]]
        ELSE s[i]]

\* the number of leading characters of s that are in the set chars
RECURSIVE PrefixLen(_, _)
PrefixLen(s, chars) ==
    IF s = <<>> \/ Head(s) \notin chars THEN 0 ELSE 1 + PrefixLen(Tail(s), chars)
\* the number of trailing characters of s that are white space
RECURSIVE TrailingSpaces(_)
TrailingSpaces(s) ==
    IF s = <<>> \/ ~IsSpace(s[Len(s)]) THEN 0
    ELSE 1 + TrailingSpaces(SubSeq(s, 1, Len(s) - 1))
Drop(s, k) == SubSeq(s, k + 1, Len(s))
\* String.prototype.trim
trim(s) ==
    LET t == Drop(s, PrefixLen(s, Spaces)) IN SubSeq(t, 1, Len(t) - TrailingSpaces(t))
\* the value of a sequence of decimal digits
RECURSIVE NatOf(_)
NatOf(s) ==
    IF s = <<>> THEN 0 ELSE 10 * NatOf(SubSeq(s, 1, Len(s) - 1)) + DigitVal(s[Len(s)])
\* /^\d+$/
AllDigits(s) == s # <<>> /\ \A i \in 1..Len(s) : IsDigit(s[i])
\* whether token occurs in s (an unanchored regular expression of literal alternatives)
Contains(s, token) ==
    \E i \in 1..(Len(s) - Len(token) + 1) : SubSeq(s, i, i + Len(token) - 1) = token

\* the leading sign of a numeric string: its length and its factor
SignLen(s) == IF s # <<>> /\ Head(s) \in {"+", "-"} THEN 1 ELSE 0
SignOf(s) == IF s # <<>> /\ Head(s) = "-" THEN -1 ELSE 1

\* parseInt(x, 10): of a string, the longest prefix <space>* <sign>? <digit>+;
\* of a number, its integer part; NaN otherwise
parseInt(x) ==
    IF x.t = "str"
    THEN LET t == Drop(x.s, PrefixLen(x.s, Spaces))
             u == Drop(t, SignLen(t))
             k == PrefixLen(u, Digits)
         IN IF k = 0 THEN NaN ELSE Number(SignOf(t) * NatOf(SubSeq(u, 1, k)) * 100)
    ELSE IF x.t = "num"
    THEN Number(IF x.n >= 0 THEN (x.n \div 100) * 100 ELSE -(((-x.n) \div 100) * 100))
    ELSE NaN

\* parseFloat(x): of a string, the longest prefix
\* <space>* <sign>? <digit>* (. <digit>*)? holding a digit (the first two
\* decimals are kept; exponents and Infinity are not drawn); of a number,
\* itself; NaN otherwise
parseFloat(x) ==
    IF x.t = "str"
    THEN LET t == Drop(x.s, PrefixLen(x.s, Spaces))
             u == Drop(t, SignLen(t))
             k == PrefixLen(u, Digits)
             w == Drop(u, k)
             hasDot == w # <<>> /\ Head(w) = "."
             f == IF hasDot THEN PrefixLen(Tail(w), Digits) ELSE 0
             frac == IF hasDot THEN SubSeq(Tail(w), 1, f) ELSE <<>>
             d1 == IF f >= 1 THEN DigitVal(frac[1]) ELSE 0
             d2 == IF f >= 2 THEN DigitVal(frac[2]) ELSE 0
         IN IF k = 0 /\ f = 0 THEN NaN
            ELSE Number(SignOf(t) * (NatOf(SubSeq(u, 1, k)) * 100 + d1 * 10 + d2))
    ELSE IF x.t = "num" THEN Number(x.n)
    ELSE NaN

(***************************************************************************)
(* riskScoring.js                                                          *)
(***************************************************************************)
NoBP == [ok |-> FALSE, systolic |-> 0, diastolic |-> 0]

\* /^(INVALID|N\/A|NULL|UNDEFINED|ERROR)$/ (line 9)
BPInvalidTokens ==
    {<<"I", "N", "V", "A", "L", "I", "D">>, <<"N", "/", "A">>, <<"N", "U", "L", "L">>,
     <<"U", "N", "D", "E", "F", "I", "N", "E", "D">>, <<"E", "R", "R", "O", "R">>}

\* parseBP (lines 5-23): null (ok FALSE) or the two integers of <digits>/<digits>
parseBP(bp) ==
    IF ~Truthy(bp) \/ bp.t # "str" THEN NoBP
    ELSE IF toUpperCase(bp.s) \in BPInvalidTokens THEN NoBP
    ELSE LET k == PrefixLen(bp.s, Digits)
             rest == Drop(bp.s, k)
         IN IF k >= 1 /\ rest # <<>> /\ Head(rest) = "/" /\ AllDigits(Tail(rest))
            THEN [ok |-> TRUE, systolic |-> NatOf(SubSeq(bp.s, 1, k)),
                  diastolic |-> NatOf(Tail(rest))]
            ELSE NoBP

\* getBPRisk: the later of the two function declarations of that name
\* (lines 89-119), which is the one in force
getBPRisk_EarlierDeclaration(bp) ==
    LET parsed == parseBP(bp)
        systolic == parsed.systolic
        diastolic == parsed.diastolic
    IN IF ~parsed.ok THEN [score |-> 0, hasIssue |-> TRUE]
       ELSE IF systolic < 120 /\ diastolic < 80 THEN [score |-> 1, hasIssue |-> FALSE]
       ELSE IF systolic >= 120 /\ systolic <= 129 /\ diastolic < 80
       THEN [score |-> 2, hasIssue |-> FALSE]
       ELSE IF (systolic >= 130 /\ systolic <= 139) \/ (diastolic >= 80 /\ diastolic <= 89)
       THEN [score |-> 3, hasIssue |-> FALSE]
       ELSE IF systolic >= 140 \/ diastolic >= 90 THEN [score |-> 4, hasIssue |-> FALSE]
       ELSE [score |-> 1, hasIssue |-> FALSE]
getBPRisk(bp) ==
    LET parsed == parseBP(bp)
        systolic == parsed.systolic
        diastolic == parsed.diastolic
    IN IF ~parsed.ok THEN [score |-> 0, hasIssue |-> TRUE]
       ELSE IF systolic >= 140 \/ diastolic >= 90 THEN [score |-> 3, hasIssue |-> FALSE]
       ELSE IF (systolic >= 130 /\ systolic <= 139) \/ (diastolic >= 80 /\ diastolic <= 89)
       THEN [score |-> 2, hasIssue |-> FALSE]
       ELSE IF systolic >= 120 /\ systolic <= 129 /\ diastolic < 80
       THEN [score |-> 1, hasIssue |-> FALSE]
       ELSE [score |-> 0, hasIssue |-> FALSE]

\* /^(INVALID|ERROR|TEMP_ERROR|N\/A|NULL|UNDEFINED)$/ (line 68)
TempInvalidTokens ==
    BPInvalidTokens \cup {<<"T", "E", "M", "P", "_", "E", "R", "R", "O", "R">>}

\* getTempRisk (lines 64-83)
getTempRisk(temp) ==
    LET tempNum == parseFloat(temp) IN
    IF Truthy(temp) /\ temp.t = "str" /\ toUpperCase(temp.s) \in TempInvalidTokens
    THEN [score |-> 0, hasIssue |-> TRUE]
    ELSE IF temp.t \in {"null", "undefined"} \/ temp = Str(<<>>) \/ tempNum.nan
    THEN [score |-> 0, hasIssue |-> TRUE]
    ELSE IF tempNum.v <= 9950 THEN [score |-> 0, hasIssue |-> FALSE]
    ELSE IF tempNum.v >= 9960 /\ tempNum.v <= 10090 THEN [score |-> 1, hasIssue |-> FALSE]
    ELSE IF tempNum.v >= 10100 THEN [score |-> 2, hasIssue |-> FALSE]
    ELSE [score |-> 0, hasIssue |-> FALSE]

\* /UNKNOWN|INVALID|ERROR|NA|NULL|UNDEFINED/ (line 129)
AgeInvalidTokens ==
    {<<"U", "N", "K", "N", "O", "W", "N">>, <<"I", "N", "V", "A", "L", "I", "D">>,
     <<"E", "R", "R", "O", "R">>, <<"N", "A">>, <<"N", "U", "L", "L">>,
     <<"U", "N", "D", "E", "F", "I", "N", "E", "D">>}

\* getAgeRisk (lines 125-163)
getAgeRisk(age) ==
    LET ageNum == parseInt(age) IN
    IF Truthy(age) /\ age.t = "str"
       /\ (\/ \E token \in AgeInvalidTokens : Contains(toUpperCase(age.s), token)
           \/ ~AllDigits(trim(age.s)))
    THEN [score |-> 0, hasIssue |-> TRUE]
    ELSE IF age.t \in {"null", "undefined"} \/ age = Str(<<>>)
    THEN [score |-> 0, hasIssue |-> TRUE]
    ELSE IF ageNum.nan \/ ageNum.v <= 0 THEN [score |-> 0, hasIssue |-> TRUE]
    ELSE IF ageNum.v > 6500 THEN [score |-> 2, hasIssue |-> FALSE]
    ELSE IF ageNum.v >= 4000 /\ ageNum.v <= 6500 THEN [score |-> 1, hasIssue |-> FALSE]
    ELSE [score |-> 0, hasIssue |-> FALSE]

\* the forEach callback (lines 175-199) on one element: whether it goes past
\* the early return of line 176, and whether it then pushes the element's
\* patient_id on each of the three lists
Listed_IgnoresId(patient) == patient.isObject
Listed(patient) == patient.isObject /\ Truthy(patient.patient_id)
TotalScore(patient) ==
    getBPRisk(patient.blood_pressure).score + getTempRisk(patient.temperature).score
        + getAgeRisk(patient.age).score
IsHighRisk_Above4(patient) == Listed(patient) /\ TotalScore(patient) > 4
IsHighRisk(patient) == Listed(patient) /\ TotalScore(patient) >= 4
HasFever(patient) ==
    LET temp == parseFloat(patient.temperature)
    IN Listed(patient) /\ ~temp.nan /\ temp.v >= 9960
HasDataIssue(patient) ==
    /\ Listed(patient)
    /\ \/ getBPRisk(patient.blood_pressure).hasIssue
       \/ getTempRisk(patient.temperature).hasIssue
       \/ getAgeRisk(patient.age).hasIssue
PatientIds(patients) == [k \in 1..Len(patients) |-> patients[k].patient_id]

\* processPatients (lines 168-210): one pass over the records, left to right,
\* so that each list holds the ids pushed on it in the order of the records
processPatients(patients) ==
    [high_risk_patients |-> PatientIds(SelectSeq(patients, IsHighRisk)),
     fever_patients |-> PatientIds(SelectSeq(patients, HasFever)),
     data_quality_issues |-> PatientIds(SelectSeq(patients, HasDataIssue))]

(***************************************************************************)
(* The server's patient pages.  The record at place i of page p is fixed;  *)
(* the server chooses how many records a page holds and the envelope.      *)
(***************************************************************************)
DigitChars == <<"0", "1", "2", "3", "4", "5", "6", "7", "8", "9">>
RECURSIVE NumChars(_)
NumChars(k) ==
    IF k < 10 THEN <<DigitChars[k + 1]>>
    ELSE Append(NumChars(k \div 10), DigitChars[(k % 10) + 1])

\* blood_pressure, temperature and age of the sample records
Vitals ==
    << <<Str(<<"1", "4", "5", "/", "9", "5">>), Str(<<"9", "9", ".", "9">>), Str(<<"7", "0">>)>>,
       <<Str(<<"I", "N", "V", "A", "L", "I", "D">>),
         Str(<<"T", "E", "M", "P", "_", "E", "R", "R", "O", "R">>),
         Str(<<"u", "n", "k", "n", "o", "w", "n">>)>>,
       <<Str(<<"1", "2", "0", "/", "8", "0">>), Num(9860), Num(4500)>>,
       <<Str(<<"1", "5", "0", "/">>), Str(<<"1", "0", "1", ".", "2">>), Str(<<"6", "6">>)>>,
       <<Str(<<"1", "1", "8", "/", "7", "6">>), Str(<<"1", "0", "0", ".", "9", "5">>), Str(<<"3", "9">>)>>,
       <<Undefined, Null, Str(<<"f", "i", "f", "t", "y">>)>>,
       <<Str(<<"1", "3", "5", "/", "8", "5">>), Str(<<"9", "9", ".", "5", "5">>), Num(4000)>> >>

\* the record at place i of page p; some records carry no patient_id
Patient(p, i) ==
    LET v == Vitals[((p * PageLimit + i) % Len(Vitals)) + 1] IN
    [isObject |-> TRUE,
     patient_id |-> IF (p + i) % 4 = 0 THEN Undefined
                    ELSE Str(<<"P">> \o NumChars(p) \o <<"-">> \o NumChars(i)),
     blood_pressure |-> v[1], temperature |-> v[2], age |-> v[3]]
\* the fetcher handles records as opaque values: a fetched record is held as
\* its place <<p, i>> on the server, and read through Content when scored
Content(ref) == Patient(ref[1], ref[2])
Contents(refs) == [k \in 1..Len(refs) |-> Content(refs[k])]
PageRecords(p, n) == [i \in 1..n |-> <<p, i>>]
\* the numbers of records a page may hold
PageCounts == {0, 1, PageLimit - 1, PageLimit}

\* the envelopes a successful page response may have
ListShapes == {"data", "patients", "array", "both"}
Shapes == ListShapes \cup {"unknown", "falsy"}
Wrap(shape, recs) ==
    CASE shape = "data" -> ObjectBody(Arr(recs), NotArray)
      [] shape = "patients" -> ObjectBody(NotArray, Arr(recs))
      [] shape = "array" -> ArrayBody(recs)
      [] shape = "both" -> ObjectBody(Arr(recs), Arr(<<<<0, 1>>>>))
      [] shape = "unknown" -> ObjectBody(NotArray, NotArray)
      [] shape = "falsy" -> NullBody
\* the record list a page response delivers
Delivered(shape, recs) == IF shape \in ListShapes THEN recs ELSE <<>>

\* what the server may answer: a full page only below MaxPage
PageAnswers(pg) ==
    {a \in [shape : Shapes, n : PageCounts] :
        /\ a.shape \notin ListShapes => a.n = 0
        /\ a.n = PageLimit => pg < MaxPage}

\* whether the page before the one requested was delivered in full, and what
\* the server may do with the page requested
LastWasFull == allPatients # <<>> /\ allPatients[Len(allPatients)][1] = page - 1
MayDeliverFull == page <= MaxVaried \/ LastWasFull
MaySkip == page <= MaxVaried \/ ~LastWasFull

(***************************************************************************)
(* fetchAllPatients (apiClient.js 93-154), submitAssessment (159-175) and  *)
(* main (index.js 5-21).                                                   *)
(***************************************************************************)
\* page++ (page numbers from MaxPage on are represented by MaxPage)
Increment(pg) == IF pg < MaxPage THEN pg + 1 ELSE MaxPage

\* the envelope match (lines 115-122); NotArray stands for null
ExtractPatients_PatientsFirst(data) ==
    IF data.truthy /\ data.patients.isArray THEN data.patients
    ELSE IF data.truthy /\ data.data.isArray THEN data.data
    ELSE IF data.truthy /\ data.isArray THEN Arr(data.items)
    ELSE NotArray
ExtractPatients(data) ==
    IF data.truthy /\ data.data.isArray THEN data.data
    ELSE IF data.truthy /\ data.patients.isArray THEN data.patients
    ELSE IF data.truthy /\ data.isArray THEN Arr(data.items)
    ELSE NotArray

\* the try block after makeRequest returned data (lines 106-136)
ProcessPage_Prepends(pg, all, data) ==
    IF ~data.truthy
    THEN [page |-> Increment(pg), hasMore |-> TRUE, allPatients |-> all]
    ELSE LET patients == ExtractPatients(data) IN
         IF patients.isArray /\ Len(patients.items) > 0
         THEN [page |-> Increment(pg), hasMore |-> Len(patients.items) >= PageLimit,
               allPatients |-> patients.items \o all]
         ELSE [page |-> pg, hasMore |-> FALSE, allPatients |-> all]
ProcessPage(pg, all, data) ==
    IF ~data.truthy
    THEN [page |-> Increment(pg), hasMore |-> TRUE, allPatients |-> all]
    ELSE LET patients == ExtractPatients(data) IN
         IF patients.isArray /\ Len(patients.items) > 0
         THEN [page |-> Increment(pg), hasMore |-> Len(patients.items) >= PageLimit,
               allPatients |-> all \o patients.items]
         ELSE [page |-> pg, hasMore |-> FALSE, allPatients |-> all]

\* the catch block (lines 137-149): the error is logged, never thrown again
FetchCatch_Rethrows(pg, all) ==
    [page |-> pg, hasMore |-> FALSE, allPatients |-> all, rethrow |-> TRUE]
FetchCatch_SamePage(pg, all) ==
    [page |-> pg, hasMore |-> ~(pg > SafetyLimit), allPatients |-> all, rethrow |-> FALSE]
FetchCatch(pg, all) ==
    [page |-> Increment(pg), hasMore |-> ~(Increment(pg) > SafetyLimit),
     allPatients |-> all, rethrow |-> FALSE]

\* main after fetchAllPatients returned (index.js 9-15): whether it goes on
\* to processPatients and submitAssessment
MainSubmits_Always(patients) == TRUE
MainSubmits(patients) == Len(patients) # 0

\* the catch block of submitAssessment (lines 171-174): whether it throws the error again
SubmitRethrows_Swallows == FALSE
SubmitRethrows == TRUE

\* the catch block of main (index.js 17-20): process.exit(1)
MainCatchExit == 1

\* a makeRequest call from fetchAllPatients or submitAssessment: the default
\* maxRetries, fresh counters (lines 12, 22-23), the first request issued
Call(req) ==
    /\ request' = req
    /\ maxRetries' = DefaultMaxRetries
    /\ attempt' = 1
    /\ rateLimitAttempts' = 0

\* a makeRequest call has ended and no request is in flight: its counters
\* are gone with its frame (the model holds them at 0)
NoCall ==
    /\ request' = NoRequest
    /\ attempt' = 0
    /\ rateLimitAttempts' = 0
    /\ UNCHANGED maxRetries

\* an error reaches the catch block of main
MainCatch ==
    /\ pc' = "exit"
    /\ exitCode' = MainCatchExit
    /\ NoCall
    /\ UNCHANGED <<results, submitCalls>>

\* the fetch loop after one turn left it with f: the next page is requested,
\* or fetchAllPatients returns its list to main (line 153)
Resume(f) ==
    /\ page' = f.page
    /\ hasMore' = f.hasMore
    /\ allPatients' = f.allPatients
    /\ IF f.hasMore
       THEN /\ pc' = "fetch"
            /\ Call(PatientsRequest(f.page))
            /\ UNCHANGED <<fetchOutcome, results, exitCode, submitCalls>>
       ELSE /\ fetchOutcome' = "returned"
            /\ pc' = "main"
            /\ NoCall
            /\ UNCHANGED <<results, exitCode, submitCalls>>

\* the request for a page succeeds: makeRequest returns the body and the loop
\* body runs (lines 104-136)
PageFetchedOn(answers) ==
    /\ pc = "fetch"
    /\ \E a \in answers :
         LET recs == PageRecords(page, a.n)
             st == MakeRequestStep(attempt, rateLimitAttempts, maxRetries,
                                   [status |-> 200, body |-> Wrap(a.shape, recs)])
         IN /\ st.outcome = "return"
            /\ delivered' = delivered \o Delivered(a.shape, recs)
            /\ Resume(ProcessPage(page, allPatients, st.body))
    /\ lastTurn' = "fetched"
    /\ UNCHANGED <<reqValue, server, hist>>
    /\ UNCHANGED scoringVars
PageFetched ==
    PageFetchedOn({a \in PageAnswers(page) : /\ a.n = PageLimit => MayDeliverFull
                                             /\ a.shape = "falsy" => MaySkip})

\* the request for a page fails for good: makeRequest throws and the catch
\* block of the loop runs (lines 137-149)
PageFailedOn(responses) ==
    /\ pc = "fetch"
    /\ \E r \in responses :
         LET st == MakeRequestStep(attempt, rateLimitAttempts, maxRetries, r)
             c == FetchCatch(page, allPatients)
         IN /\ st.outcome = "throw"
            /\ IF c.rethrow
               THEN /\ fetchOutcome' = "raised"
                    /\ MainCatch
                    /\ UNCHANGED <<page, hasMore, allPatients>>
               ELSE Resume(c)
    /\ lastTurn' = "failed"
    /\ server' = AfterFailure(server)
    /\ UNCHANGED <<reqValue, delivered, hist>>
    /\ UNCHANGED scoringVars
PageFailed == PageFailedOn(IF MaySkip THEN ErrorResponses ELSE {})

\* main resumes with the list fetchAllPatients returned (index.js 9-15): it
\* ends when the list is empty, and otherwise runs processPatients and calls
\* submitAssessment, which issues the submit request (line 163)
MainResume ==
    /\ pc = "main"
    /\ IF MainSubmits(allPatients)
       THEN LET r == <<processPatients(Contents(allPatients))>> IN
            /\ results' = r
            /\ pc' = "submit"
            /\ submitCalls' = submitCalls + 1
            /\ Call(SubmitRequest(r))
            /\ UNCHANGED exitCode
       ELSE /\ pc' = "exit"
            /\ exitCode' = 0
            /\ NoCall
            /\ UNCHANGED <<results, submitCalls>>
    /\ UNCHANGED <<reqValue, page, hasMore, allPatients, fetchOutcome, server, lastTurn,
                   delivered, hist>>
    /\ UNCHANGED scoringVars

\* the submit request succeeds: submitAssessment returns, main ends (lines 168-170)
SubmitOk ==
    /\ pc = "submit"
    /\ LET st == MakeRequestStep(attempt, rateLimitAttempts, maxRetries,
                               [status |-> 200, body |-> ObjectBody(NotArray, NotArray)])
       IN /\ st.outcome = "return"
          /\ reqValue' = ValueOf(st)
    /\ pc' = "exit"
    /\ exitCode' = 0
    /\ NoCall
    /\ UNCHANGED <<page, hasMore, allPatients, fetchOutcome, results, server, lastTurn,
                   delivered, submitCalls, hist>>
    /\ UNCHANGED scoringVars

\* the submit request fails for good: makeRequest throws, submitAssessment
\* throws the error again (line 173) and main's catch block ends the process
SubmitFailed ==
    /\ pc = "submit"
    /\ \E r \in ErrorResponses :
         LET st == MakeRequestStep(attempt, rateLimitAttempts, maxRetries, r)
         IN /\ st.outcome = "throw"
            /\ reqValue' = ValueOf(st)
    /\ IF SubmitRethrows
       THEN MainCatch
       ELSE /\ pc' = "exit"
            /\ exitCode' = 0
            /\ NoCall
            /\ UNCHANGED <<results, submitCalls>>
    /\ UNCHANGED <<page, hasMore, allPatients, fetchOutcome, server, lastTurn,
                   delivered, hist>>
    /\ UNCHANGED scoringVars

\* main is started: fetchAllPatients initialises its loop (lines 96-98) and
\* requests page 1
Init ==
    /\ pc = "fetch"
    /\ request = PatientsRequest(1)
    /\ maxRetries = DefaultMaxRetries
    /\ attempt = 1
    /\ rateLimitAttempts = 0
    /\ reqValue = NoValue
    /\ page = 1
    /\ hasMore = TRUE
    /\ allPatients = <<>>
    /\ fetchOutcome = "pending"
    /\ results = <<>>
    /\ exitCode = -1
    /\ server = FreeServer
    /\ lastTurn = "none"
    /\ delivered = <<>>
    /\ submitCalls = 0
    /\ hist = NoHist
    /\ NoScoring

Next == ReqRetry \/ PageFetched \/ PageFailed \/ MainResume \/ SubmitOk \/ SubmitFailed

Spec == Init /\ [][Next]_vars

\* every request fetchAllPatients has in flight is answered in the end, and
\* the code waiting for the answer resumes
FairSpec == Spec /\ WF_vars(ReqRetry \/ PageFetched \/ PageFailed)

(***************************************************************************)
(* A server that holds three pages: pages 1 and 2 hold PageLimit records,  *)
(* page 3 holds fewer.  It answers the requests for page 2 with the        *)
(* failures of its script, one after the other, and every other request    *)
(* with the page (an empty page beyond page 3).                            *)
(***************************************************************************)
\* the largest number of failures in a script
MaxScript == 2
RECURSIVE Scripts(_)
Scripts(k) ==
    IF k = 0 THEN {<<>>}
    ELSE Scripts(k - 1) \cup {Append(f, e) : f \in Scripts(k - 1), e \in ErrorStatuses}

HeldBy(srv, pg) == IF pg <= 2 THEN PageLimit ELSE IF pg = 3 THEN srv.last ELSE 0
ScriptedErrors ==
    IF request.endpoint = "patients" /\ request.page = 2 /\ server.failures # <<>>
    THEN {[status |-> Head(server.failures), body |-> NullBody]}
    ELSE {}
ScriptedAnswers ==
    IF ScriptedErrors # {} THEN {}
    ELSE {[shape |-> sh, n |-> HeldBy(server, page)] : sh \in ListShapes}

InitThreePages ==
    /\ server \in {[scripted |-> TRUE, last |-> n, plan |-> f, failures |-> f] :
                      n \in PageCounts \ {PageLimit}, f \in Scripts(MaxScript)}
    /\ pc = "fetch"
    /\ request = PatientsRequest(1)
    /\ maxRetries = DefaultMaxRetries
    /\ attempt = 1
    /\ rateLimitAttempts = 0
    /\ reqValue = NoValue
    /\ page = 1
    /\ hasMore = TRUE
    /\ allPatients = <<>>
    /\ fetchOutcome = "pending"
    /\ results = <<>>
    /\ exitCode = -1
    /\ lastTurn = "none"
    /\ delivered = <<>>
    /\ submitCalls = 0
    /\ hist = NoHist
    /\ NoScoring

RetryScripted == ReqRetryOn(ScriptedErrors)
FetchedScripted == PageFetchedOn(ScriptedAnswers)
FailedScripted == PageFailedOn(ScriptedErrors)
NextThreePages == RetryScripted \/ FetchedScripted \/ FailedScripted

SpecThreePages == InitThreePages /\ [][NextThreePages]_vars

(***************************************************************************)
(* A bare processPatients call (riskScoring.js 168-210), stepped through   *)
(* element by element.  The array it is given is one record drawn from the *)
(* samples of the three vitals, or a short array over a pool of records    *)
(* with repeated, missing and empty patient_ids.                           *)
(***************************************************************************)
\* the longest array drawn from the pool
MaxPatients == 3

SystolicSamples == {90, 119, 120, 129, 130, 139, 140, 180}
DiastolicSamples == {60, 79, 80, 89, 90, 110}
\* the string "<systolic>/<diastolic>"
BPString(systolic, diastolic) == NumChars(systolic) \o <<"/">> \o NumChars(diastolic)
BPOthers ==
    {Str(<<"I", "N", "V", "A", "L", "I", "D">>), Str(<<"n", "/", "a">>), Str(<<"1", "5", "0", "/">>), Str(<<"/", "9", "0">>), Str(<<"1", "2", "0", "/", "8", "0", " ">>), Str(<<"1", "2", "0", "-", "8", "0">>), Str(<<>>),
     Undefined, Null, Num(12000)}
BPSamples ==
    {Str(BPString(sy, di)) : sy \in SystolicSamples, di \in DiastolicSamples} \cup BPOthers
BPCore == {Str(<<"1", "4", "5", "/", "9", "5">>), Str(<<"1", "1", "8", "/", "7", "6">>), Str(<<"I", "N", "V", "A", "L", "I", "D">>), Undefined}

TempSamples ==
    {Num(h) : h \in {0, 9700, 9860, 9950, 9955, 9960, 10000, 10090, 10095, 10100, 10300}}
    \cup {Str(<<"9", "8", ".", "6">>), Str(<<"9", "9", ".", "6">>), Str(<<"1", "0", "0", ".", "9", "5">>), Str(<<"1", "0", "1", ".", "5", "F">>), Str(<<"T", "E", "M", "P", "_", "E", "R", "R", "O", "R">>), Str(<<"e", "r", "r", "o", "r">>), Str(<<"a", "b", "c">>), Str(<<>>),
          Undefined, Null}
TempCore == {Str(<<"1", "0", "1", ".", "2">>), Str(<<"T", "E", "M", "P", "_", "E", "R", "R", "O", "R">>), Num(9860), Num(10095)}

AgeSamples ==
    {Num(h) : h \in {0, 3900, 4000, 6500, 6550, 6600}}
    \cup {Str(<<"3", "9">>), Str(<<"4", "0">>), Str(<<"6", "5">>), Str(<<"6", "6">>), Str(<<" ", "4", "5", " ">>), Str(<<"f", "i", "f", "t", "y">>), Str(<<"u", "n", "k", "n", "o", "w", "n">>), Str(<<"4", "5", "y">>), Str(<<>>),
          Undefined, Null}
AgeCore == {Str(<<"7", "0">>), Str(<<"u", "n", "k", "n", "o", "w", "n">>), Num(4500), Num(3900)}

Record(id, bp, temp, age) ==
    [isObject |-> TRUE, patient_id |-> id, blood_pressure |-> bp, temperature |-> temp,
     age |-> age]
\* an element that is null
NullElement ==
    [isObject |-> FALSE, patient_id |-> Undefined, blood_pressure |-> Undefined,
     temperature |-> Undefined, age |-> Undefined]
IdA == Str(<<"A">>)
IdB == Str(<<"B">>)
\* one record for every sample of a vital, the other two vitals taken from the cores
SampleRecords ==
    {Record(IdA, bp, t, a) : bp \in BPSamples, t \in TempCore, a \in AgeCore}
    \cup {Record(IdA, bp, t, a) : bp \in BPCore, t \in TempSamples, a \in AgeCore}
    \cup {Record(IdA, bp, t, a) : bp \in BPCore, t \in TempCore, a \in AgeSamples}
\* the pool: the two examples of the specification's section 8, a record on
\* all three lists that repeats the id of another, a record whose patient_id
\* is missing, one whose patient_id is the empty string, and a null element
Pool ==
    {Record(IdA, Str(<<"1", "4", "5", "/", "9", "5">>), Str(<<"9", "9", ".", "9">>), Str(<<"7", "0">>)),
     Record(IdB, Str(<<"I", "N", "V", "A", "L", "I", "D">>), Str(<<"T", "E", "M", "P", "_", "E", "R", "R", "O", "R">>), Str(<<"u", "n", "k", "n", "o", "w", "n">>)),
     Record(IdA, Str(<<"1", "5", "0", "/">>), Str(<<"1", "0", "1", ".", "2">>), Str(<<"6", "6">>)),
     Record(Undefined, Str(<<"1", "4", "5", "/", "9", "5">>), Str(<<"1", "0", "1", ".", "2">>), Str(<<"7", "0">>)),
     Record(Str(<<>>), Str(<<"1", "4", "5", "/", "9", "5">>), Str(<<"1", "0", "1", ".", "2">>), Str(<<"7", "0">>)),
     NullElement}
PatientArrays ==
    {<<r>> : r \in SampleRecords} \cup UNION {[1..n -> Pool] : n \in 0..MaxPatients}

\* the constants of one run of the forEach callback (lines 176-198), and on
\* which lists it pushes the patient_id
CallbackRun(patient) ==
    IF ~Listed(patient) THEN NoCallback
    ELSE [listed |-> TRUE,
          bpRisk |-> getBPRisk(patient.blood_pressure),
          tempRisk |-> getTempRisk(patient.temperature),
          ageRisk |-> getAgeRisk(patient.age),
          totalScore |-> TotalScore(patient),
          temp |-> parseFloat(patient.temperature),
          pushed |-> [high |-> IsHighRisk(patient), fever |-> HasFever(patient),
                      issue |-> HasDataIssue(patient)]]

\* the fetch, submit and main variables, which a bare processPatients call leaves alone
callVars == <<request, maxRetries, attempt, rateLimitAttempts, reqValue, page, hasMore,
              allPatients, fetchOutcome, exitCode, server, lastTurn, delivered,
              submitCalls, hist>>

InitScore ==
    /\ patientsArg \in PatientArrays
    /\ cursor = 0
    /\ highRiskPatients = <<>>
    /\ feverPatients = <<>>
    /\ dataQualityIssues = <<>>
    /\ callback = NoCallback
    /\ pc = "process"
    /\ request = NoRequest
    /\ maxRetries = DefaultMaxRetries
    /\ attempt = 0
    /\ rateLimitAttempts = 0
    /\ reqValue = NoValue
    /\ page = 1
    /\ hasMore = FALSE
    /\ allPatients = <<>>
    /\ fetchOutcome = "returned"
    /\ results = <<>>
    /\ exitCode = -1
    /\ server = FreeServer
    /\ lastTurn = "none"
    /\ delivered = <<>>
    /\ submitCalls = 0
    /\ hist = NoHist

\* forEach runs the callback on the next element (lines 175-199)
ForEachCallback ==
    /\ pc = "process"
    /\ cursor < Len(patientsArg)
    /\ LET patient == patientsArg[cursor + 1] IN
       /\ callback' = CallbackRun(patient)
       /\ highRiskPatients' =
             IF IsHighRisk(patient) THEN Append(highRiskPatients, patient.patient_id)
             ELSE highRiskPatients
       /\ feverPatients' =
             IF HasFever(patient) THEN Append(feverPatients, patient.patient_id)
             ELSE feverPatients
       /\ dataQualityIssues' =
             IF HasDataIssue(patient) THEN Append(dataQualityIssues, patient.patient_id)
             ELSE dataQualityIssues
    /\ cursor' = cursor + 1
    /\ UNCHANGED <<pc, patientsArg, results>>
    /\ UNCHANGED callVars

\* forEach is over: processPatients returns the three lists (lines 205-209)
ProcessReturn ==
    /\ pc = "process"
    /\ cursor = Len(patientsArg)
    /\ results' = <<[high_risk_patients |-> highRiskPatients,
                     fever_patients |-> feverPatients,
                     data_quality_issues |-> dataQualityIssues]>>
    /\ pc' = "processed"
    /\ UNCHANGED scoringVars
    /\ UNCHANGED callVars

NextScore == ForEachCallback \/ ProcessReturn

SpecScore == InitScore /\ [][NextScore]_vars

(***************************************************************************)
(* One turn of the fetch loop against a server that holds one answer for   *)
(* the page requested.  The loop is at page p: the pages 1..p-2 were       *)
(* fetched in full and the request for page p-1 failed for good.           *)
(***************************************************************************)
\* the records of the full pages 1..k, in fetch order
FullPages(k) ==
    [j \in 1..(k * PageLimit) |-> <<((j - 1) \div PageLimit) + 1, ((j - 1) % PageLimit) + 1>>]
\* the server holding the answer a for the page requested
OnePageServer(a) ==
    [scripted |-> TRUE, last |-> a.n, plan |-> <<>>, failures |-> <<>>, shape |-> a.shape]
HeldAnswer == [shape |-> server.shape, n |-> server.last]

InitOnePage ==
    /\ page \in 1..MaxVaried
    /\ server \in {OnePageServer(a) : a \in PageAnswers(page)}
    /\ pc = "fetch"
    /\ request = PatientsRequest(page)
    /\ maxRetries = DefaultMaxRetries
    /\ attempt = 1
    /\ rateLimitAttempts = 0
    /\ reqValue = NoValue
    /\ hasMore = TRUE
    /\ allPatients = IF page > 2 THEN FullPages(page - 2) ELSE <<>>
    /\ fetchOutcome = "pending"
    /\ results = <<>>
    /\ exitCode = -1
    /\ lastTurn = IF page > 1 THEN "failed" ELSE "none"
    /\ delivered = allPatients
    /\ submitCalls = 0
    /\ hist = NoHist
    /\ NoScoring

\* the server gives the answer it holds, once
AnsweredAsHeld ==
    /\ lastTurn # "fetched"
    /\ PageFetchedOn({HeldAnswer})
NextOnePage == AnsweredAsHeld

SpecOnePage == InitOnePage /\ [][NextOnePage]_vars

(***************************************************************************)
(* Claims about one makeRequest call, checked under SpecReq.               *)
(***************************************************************************)
\* C1: in one makeRequest call attempt never exceeds maxRetries, and at most
\* maxRetries requests of the call end in a failure that is not a 429.
C1_GeneralAttemptsBounded ==
    /\ attempt <= maxRetries
    /\ hist.failures <= maxRetries

\* the call with the default maxRetries has thrown after using its whole budget
C1_Witness ==
    /\ pc = "thrown"
    /\ maxRetries = DefaultMaxRetries
    /\ attempt = maxRetries
    /\ hist.failures = maxRetries

\* C2 as stated: the retries made because of a 429, counted over the whole
\* call, never exceed maxRateLimitRetries.
C2_TotalRateLimitRetriesBounded ==
    hist.rateLimitRetries <= maxRateLimitRetries

\* C2 amended: the retries made because of a 429 never exceed
\* maxRateLimitRetries within one consecutive run of 429s, and never exceed
\* maxRateLimitRetries * maxRetries over the whole call.
C2_RunRateLimitRetriesBounded ==
    /\ hist.runRetries <= maxRateLimitRetries
    /\ hist.rateLimitRetries <= maxRateLimitRetries * maxRetries

\* a default call that retried 24 times because of a 429, the last 8 in one run
C2_Witness ==
    /\ maxRetries = DefaultMaxRetries
    /\ hist.runRetries = maxRateLimitRetries
    /\ hist.rateLimitRetries = maxRateLimitRetries * DefaultMaxRetries

\* C3: handling a 429 leaves attempt unchanged and, while rateLimitAttempts
\* is at most maxRateLimitRetries, issues the request again; a success then
\* makes the call return the payload of that response.
C3_RateLimitKeepsBudget ==
    [][/\ hist'.lastStatus = 429 =>
            /\ attempt' = attempt
            /\ rateLimitAttempts' <= maxRateLimitRetries => pc' = "call"
       /\ hist'.lastStatus = 200 =>
            /\ pc' = "returned"
            /\ reqValue'.kind = "data"
            /\ reqValue'.body = hist'.lastBody
            /\ attempt' = attempt]_vars

\* a run of 8 429s followed by a success, after one general retry was used
C3_Witness ==
    /\ pc = "returned"
    /\ hist.lastStatus = 200
    /\ hist.rateLimitRetries = maxRateLimitRetries
    /\ rateLimitAttempts = maxRateLimitRetries
    /\ hist.failures = 1
    /\ attempt = 2

(***************************************************************************)
(* Claims about a run of main, checked under Spec (C5 under FairSpec).     *)
(***************************************************************************)
\* C4: whatever the server answers, no page numbered above the safety limit
\* 15 is ever requested.
C4_NoPageAboveSafetyLimit ==
    request.endpoint = "patients" => request.page <= SafetyLimit

\* C5: whatever the server answers, fetchAllPatients ends in the end.
C5_FetchTerminates == <>(fetchOutcome # "pending")

\* C6: fetchAllPatients never raises: no page failure reaches its caller,
\* and the process ends with status 1 only after a call of submitAssessment.
C6_FetchNeverRaises ==
    /\ fetchOutcome # "raised"
    /\ exitCode = 1 => submitCalls = 1
    /\ lastTurn = "failed" /\ pc = "main" => fetchOutcome = "returned"

\* fetchAllPatients has returned the empty list after the request for page 15
\* failed for good, no page having delivered a record
C6_Witness ==
    /\ fetchOutcome = "returned"
    /\ lastTurn = "failed"
    /\ allPatients = <<>>
    /\ page = SafetyLimit + 1

\* the places <<page, index>> of a list of records increase strictly
InFetchOrder(refs) ==
    \A k \in 1..(Len(refs) - 1) :
        \/ refs[k][1] < refs[k + 1][1]
        \/ refs[k][1] = refs[k + 1][1] /\ refs[k][2] < refs[k + 1][2]

\* C7: the list fetchAllPatients returns is the concatenation, in increasing
\* page order, of the record lists of the pages whose request succeeded.
C7_ReturnsConcatenation ==
    fetchOutcome = "returned" =>
        /\ allPatients = delivered
        /\ InFetchOrder(allPatients)

\* pages 1 and 3 were delivered in full, page 2 was not, a later page held one record
C7_Witness ==
    /\ fetchOutcome = "returned"
    /\ Len(allPatients) = 2 * PageLimit + 1
    /\ allPatients[1][1] = 1
    /\ allPatients[PageLimit + 1][1] = 3
    /\ allPatients[2 * PageLimit + 1][1] = 4

\* C9: the submit request is issued only after fetchAllPatients returned and
\* processPatients produced the results it carries, at most once in a run,
\* and never when fetchAllPatients returned no record.
C9_SubmitAfterScoring ==
    /\ submitCalls <= 1
    /\ fetchOutcome # "returned" => submitCalls = 0
    /\ allPatients = <<>> => submitCalls = 0
    /\ request.endpoint = "submit" =>
          /\ submitCalls = 1
          /\ results # <<>>
          /\ request.data = results

\* a run that submitted its results and ended
C9_Witness ==
    /\ pc = "exit"
    /\ exitCode = 0
    /\ submitCalls = 1
    /\ reqValue.kind = "data"

\* C10: when makeRequest throws inside submitAssessment the process ends
\* with status 1, and a run that called submitAssessment ends with status 0
\* only when the submit request succeeded.
C10_SubmitFailureExits ==
    /\ pc = "exit" /\ reqValue.kind \in {"error", "fallthrough"} => exitCode = 1
    /\ pc = "exit" /\ submitCalls = 1 /\ exitCode = 0 => reqValue.kind = "data"

\* a run ended with status 1 after the submit request was rate limited 9 times in a row
C10_Witness ==
    /\ pc = "exit"
    /\ exitCode = 1
    /\ submitCalls = 1
    /\ reqValue.status = 429

(***************************************************************************)
(* The claim about the three-page server, checked under SpecThreePages.    *)
(***************************************************************************)
ThreePages(srv) ==
    PageRecords(1, PageLimit) \o PageRecords(2, PageLimit) \o PageRecords(3, srv.last)
ThreePagesFetched ==
    /\ request.endpoint = "patients" => request.page <= 3
    /\ fetchOutcome = "returned" => allPatients = ThreePages(server)

\* C8 as stated: whether the requests for page 2 fail twice or not at all, and
\* whatever the failures, no page after page 3 is requested and the list
\* returned is the concatenation of pages 1, 2 and 3.
C8_ThreePagesAnyFailure ==
    Len(server.plan) \in {0, 2} => ThreePagesFetched

\* C8 amended: the same, when the (at most two) failures are 429s,
\* 500/502/503s or network errors (status 0).
C8_ThreePagesRetryableFailure ==
    /\ Len(server.plan) <= 2
    /\ \A k \in 1..Len(server.plan) : server.plan[k] \in {0, 429, 500, 502, 503}
    => ThreePagesFetched

\* the three pages were returned after the request for page 2 failed with a
\* 503 and with a network error
C8_Witness ==
    /\ fetchOutcome = "returned"
    /\ server.plan = <<503, 0>>
    /\ server.failures = <<>>
    /\ server.last = PageLimit - 1
    /\ allPatients = ThreePages(server)

(***************************************************************************)
(* Claims about the transitions of makeRequest, checked under SpecReq.     *)
(* Every step of SpecReq is the arrival of one response, whose status is   *)
(* hist'.lastStatus.                                                       *)
(***************************************************************************)
\* C14: on a 429 rateLimitAttempts is incremented; while the incremented
\* value k is at most maxRateLimitRetries (8) the call waits 3000ms * k and
\* issues the request again; when it exceeds 8 (the 9th consecutive 429) the
\* call raises that error and issues no further request.
C14_RateLimitedTransition ==
    [][hist'.lastStatus = 429 =>
         /\ rateLimitAttempts' = rateLimitAttempts + 1
         /\ IF rateLimitAttempts' <= maxRateLimitRetries
            THEN /\ pc' = "call"
                 /\ request' = request
                 /\ hist'.requests = hist.requests + 1
                 /\ hist'.lastDelay = RateLimitDelay * rateLimitAttempts'
            ELSE /\ pc' = "thrown"
                 /\ request' = NoRequest
                 /\ hist'.requests = hist.requests
                 /\ reqValue'.kind = "error"
                 /\ reqValue'.status = 429]_vars

\* the 9th consecutive 429 was raised, the 8th having been followed by a wait
\* of 24000ms and a ninth request
C14_Witness ==
    /\ pc = "thrown"
    /\ reqValue.status = 429
    /\ rateLimitAttempts = maxRateLimitRetries + 1
    /\ hist.runRetries = maxRateLimitRetries
    /\ hist.requests = maxRateLimitRetries + 1

\* C15: on a 500, 502 or 503 the call retries iff attempt < maxRetries: it
\* then waits 1000ms * attempt (the value before the increment), increments
\* attempt by one and issues the request again; otherwise it raises the error
\* and issues no further request.
C15_ServerErrorTransition ==
    [][hist'.lastStatus \in {500, 502, 503} =>
         IF attempt < maxRetries
         THEN /\ pc' = "call"
              /\ request' = request
              /\ attempt' = attempt + 1
              /\ hist'.requests = hist.requests + 1
              /\ hist'.lastDelay = ServerErrorDelay * attempt
         ELSE /\ pc' = "thrown"
              /\ request' = NoRequest
              /\ attempt' = attempt
              /\ hist'.requests = hist.requests
              /\ reqValue'.kind = "error"
              /\ reqValue'.status = hist'.lastStatus]_vars

\* the second server error of a call was retried after a wait of 2000ms
C15_Witness ==
    /\ pc = "call"
    /\ hist.lastStatus = 503
    /\ hist.failures = 2
    /\ attempt = 3
    /\ hist.lastDelay = 2 * ServerErrorDelay

\* the failures that are neither a 429 nor a 500, 502 or 503: an HTTP status
\* of another kind, and no status (0)
OtherHttpStatuses == ErrorStatuses \ {0, 429, 500, 502, 503}

\* C16 as stated: on a failure with any other HTTP status or with no status
\* the call raises the error if attempt >= maxRetries, and otherwise
\* increments attempt and issues the request again.
C16_OtherFailureRetried ==
    [][hist'.lastStatus \in OtherHttpStatuses \cup {0} =>
         IF attempt >= maxRetries
         THEN pc' = "thrown" /\ reqValue'.kind = "error"
         ELSE pc' = "call" /\ attempt' = attempt + 1
                /\ hist'.requests = hist.requests + 1]_vars

\* C16 amended: a failure with no status is raised if attempt >= maxRetries
\* and otherwise retried with attempt incremented; a failure with another
\* HTTP status (400, 404) is raised at once whatever attempt is, and no
\* further request is issued.
C16_OnlyNoStatusRetried ==
    [][/\ hist'.lastStatus = 0 =>
            IF attempt >= maxRetries
            THEN /\ pc' = "thrown"
                 /\ reqValue'.kind = "error"
                 /\ hist'.requests = hist.requests
            ELSE /\ pc' = "call"
                 /\ request' = request
                 /\ attempt' = attempt + 1
                 /\ hist'.requests = hist.requests + 1
       /\ hist'.lastStatus \in OtherHttpStatuses =>
            /\ pc' = "thrown"
            /\ request' = NoRequest
            /\ attempt' = attempt
            /\ reqValue'.kind = "error"
            /\ reqValue'.status = hist'.lastStatus
            /\ hist'.requests = hist.requests]_vars

\* a 404 on the first request of a call with budget left was raised at once
C16_Witness ==
    /\ pc = "thrown"
    /\ reqValue.status = 404
    /\ attempt = 1
    /\ maxRetries = DefaultMaxRetries
    /\ hist.requests = 1

\* the largest number of HTTP requests of one call with the default bounds:
\* three runs of 8 retried 429s, each followed by one more request (line 12, 24)
MaxRequestsByDefault == (maxRateLimitRetries + 1) * DefaultMaxRetries

\* C19: with the default bounds (maxRetries 3, maxRateLimitRetries 8) a call
\* ends after at most 27 HTTP requests whatever the responses are, however the
\* 429s are interleaved with other failures, and the throw after the while
\* loop (line 87) is never reached; for another maxRetries the bound is
\* (maxRateLimitRetries + 1) * maxRetries.
C19_RequestsBounded ==
    /\ MaxRequestsByDefault = 27
    /\ maxRetries = DefaultMaxRetries => hist.requests <= MaxRequestsByDefault
    /\ hist.requests <= (maxRateLimitRetries + 1) * maxRetries
    /\ reqValue.kind # "fallthrough"

\* a call with the default bounds that ended with its 27th request
C19_Witness ==
    /\ pc \in {"returned", "thrown"}
    /\ maxRetries = DefaultMaxRetries
    /\ hist.requests = MaxRequestsByDefault
    /\ hist.rateLimitRetries = maxRateLimitRetries * DefaultMaxRetries
    /\ hist.failures >= DefaultMaxRetries - 1

(***************************************************************************)
(* The claim about a page request that fails for good, checked under Spec. *)
(***************************************************************************)
\* a turn of the fetch loop ends in its catch block: the makeRequest call for
\* the page has thrown, so that its counters are gone (a retry inside the call
\* leaves attempt above 1 or rateLimitAttempts above 0)
PageFailsForGood ==
    /\ pc = "fetch"
    /\ lastTurn' = "failed"
    /\ attempt' <= 1
    /\ rateLimitAttempts' = 0

\* C17: when the request for page N fails for good, the next page requested
\* is N + 1 and page N is not requested again; there is no further request
\* when N + 1 exceeds the safety limit (15): fetchAllPatients then returns.
\* The records accumulated from earlier pages are unchanged.
C17_FailedPageSkipped ==
    [][PageFailsForGood =>
         /\ request.endpoint = "patients"
         /\ request.page = page
         /\ allPatients' = allPatients
         /\ delivered' = delivered
         /\ IF page + 1 > SafetyLimit
            THEN /\ request' = NoRequest
                 /\ pc' = "main"
                 /\ fetchOutcome' = "returned"
            ELSE /\ request' = PatientsRequest(page + 1)
                 /\ pc' = "fetch"
                 /\ fetchOutcome' = "pending"]_vars

\* page 1 was fetched in full, the request for page 2 failed for good and
\* page 3 is requested with the records of page 1 kept
C17_Witness ==
    /\ pc = "fetch"
    /\ lastTurn = "failed"
    /\ request = PatientsRequest(3)
    /\ allPatients = PageRecords(1, PageLimit)

(***************************************************************************)
(* The claim about the envelope of a page response, checked under          *)
(* SpecOnePage: the step is the loop turn on the answer the server holds.  *)
(***************************************************************************)
\* a loop turn that stops the fetch with the accumulated records unchanged
\* and without an error, as a page of zero records does
StopsAsEmptyPage ==
    /\ allPatients' = allPatients
    /\ page' = page
    /\ hasMore' = FALSE
    /\ request' = NoRequest
    /\ pc' = "main"
    /\ fetchOutcome' = "returned"
    /\ exitCode' = exitCode

\* the first matching envelope supplies the records: {data: [...]} before
\* {patients: [...]} before a bare array
FirstMatchSupplies ==
    LET recs == PageRecords(page, HeldAnswer.n) IN
    /\ (HeldAnswer.shape \in ListShapes /\ HeldAnswer.n > 0) =>
          /\ allPatients' = allPatients \o recs
          /\ page' = page + 1
          /\ hasMore' = (HeldAnswer.n >= PageLimit)
    /\ (HeldAnswer.shape \in ListShapes /\ HeldAnswer.n = 0) => StopsAsEmptyPage

\* C18 as stated: the envelopes are matched in the order data, patients, bare
\* array, the first match supplying the records; every body that matches none
\* of them (an object without such an array, and also an empty body) stops
\* the fetch as an empty page does.
C18_UnmatchedBodyStops ==
    [][lastTurn' = "fetched" =>
         /\ FirstMatchSupplies
         /\ HeldAnswer.shape \notin ListShapes => StopsAsEmptyPage]_vars

\* C18 amended: as above for a body that is an object or array matching none
\* of the three envelopes; an empty (falsy) body does not stop the fetch: the
\* page is skipped, the next page is requested and the records are unchanged.
C18_UnmatchedObjectStops ==
    [][lastTurn' = "fetched" =>
         /\ FirstMatchSupplies
         /\ HeldAnswer.shape = "unknown" => StopsAsEmptyPage
         /\ HeldAnswer.shape = "falsy" =>
               /\ allPatients' = allPatients
               /\ page' = page + 1
               /\ hasMore' = TRUE
               /\ request' = PatientsRequest(page + 1)
               /\ pc' = "fetch"
               /\ fetchOutcome' = "pending"]_vars

\* a body without a recognised envelope arrived for page 3 when the records of
\* page 1 were held: the fetch returned them
C18_Witness ==
    /\ lastTurn = "fetched"
    /\ server.shape = "unknown"
    /\ page = 3
    /\ allPatients = FullPages(1)
    /\ fetchOutcome = "returned"
    /\ exitCode = -1

(***************************************************************************)
(* Claims about processPatients, checked under SpecScore.  A step that     *)
(* increments cursor is one run of the forEach callback, on the element    *)
(* patientsArg[cursor'].                                                   *)
(***************************************************************************)
\* a record that carries a patient_id (a non-empty string)
HasId(patient) ==
    patient.isObject /\ patient.patient_id.t = "str" /\ patient.patient_id.s # <<>>

\* C11: for every record with a patient_id, totalScore is the sum of the
\* blood-pressure, temperature and age component scores and lies in 0..7; an
\* invalid component contributes 0; the record's id is appended to the
\* high-risk list if and only if totalScore >= 4.
C11_TotalScoreDecidesHighRisk ==
    [][(cursor' = cursor + 1 /\ HasId(patientsArg[cursor'])) =>
         /\ callback'.listed
         /\ callback'.totalScore = callback'.bpRisk.score + callback'.tempRisk.score
                                      + callback'.ageRisk.score
         /\ callback'.totalScore \in 0..7
         /\ callback'.bpRisk.hasIssue => callback'.bpRisk.score = 0
         /\ callback'.tempRisk.hasIssue => callback'.tempRisk.score = 0
         /\ callback'.ageRisk.hasIssue => callback'.ageRisk.score = 0
         /\ highRiskPatients' =
               IF callback'.totalScore >= 4
               THEN Append(highRiskPatients, patientsArg[cursor'].patient_id)
               ELSE highRiskPatients]_vars

\* a record with an invalid blood pressure whose temperature and age alone
\* make it high-risk
C11_Witness ==
    /\ cursor = 1
    /\ HasId(patientsArg[1])
    /\ callback.bpRisk.hasIssue
    /\ callback.totalScore = 4
    /\ highRiskPatients = <<patientsArg[1].patient_id>>

\* the band of a systolic and of a diastolic value taken alone, and the
\* score of the priority order of the specification's section 4.2
SystolicBand(sy) == IF sy >= 140 THEN 3 ELSE IF sy >= 130 THEN 2 ELSE IF sy >= 120 THEN 1 ELSE 0
DiastolicBand(di) == IF di >= 90 THEN 3 ELSE IF di >= 80 THEN 2 ELSE 0
PriorityScore(sy, di) ==
    IF sy >= 140 \/ di >= 90 THEN 3
    ELSE IF (sy >= 130 /\ sy <= 139) \/ (di >= 80 /\ di <= 89) THEN 2
    ELSE IF sy >= 120 /\ sy <= 129 /\ di < 80 THEN 1
    ELSE 0

\* C12: for every validly parsed blood pressure "<systolic>/<diastolic>" the
\* score processPatients uses follows the priority order 3, 2, 1, 0 of the
\* later getBPRisk declaration: it is in 0..3, the component is valid, and
\* when the two values fall in different bands the higher band wins.
C12_BPScorePriorityOrder ==
    \A sy \in SystolicSamples, di \in DiastolicSamples :
        (/\ cursor > 0
         /\ HasId(patientsArg[cursor])
         /\ patientsArg[cursor].blood_pressure = Str(BPString(sy, di))) =>
            /\ callback.bpRisk = [score |-> PriorityScore(sy, di), hasIssue |-> FALSE]
            /\ callback.bpRisk.score \in 0..3
            /\ callback.bpRisk.score =
                  IF SystolicBand(sy) >= DiastolicBand(di) THEN SystolicBand(sy)
                  ELSE DiastolicBand(di)

\* "120/90": the systolic value is in the band of score 1, the diastolic
\* value in the band of score 3
C12_Witness ==
    /\ cursor = 1
    /\ HasId(patientsArg[1])
    /\ patientsArg[1].blood_pressure = Str(BPString(120, 90))
    /\ callback.bpRisk = [score |-> 3, hasIssue |-> FALSE]

\* the patient_ids of the elements of patientsArg whose places are in sel, in
\* the order of the array
IdsAt(sel) ==
    LET places == SelectSeq([k \in 1..Len(patientsArg) |-> k], LAMBDA k : k \in sel)
    IN [j \in 1..Len(places) |-> patientsArg[places[j]].patient_id]
IsSubsequenceOfIds(list) ==
    \E sel \in SUBSET {k \in 1..Len(patientsArg) : HasId(patientsArg[k])} :
        list = IdsAt(sel)

\* C13: each of the three lists is a subsequence of the input sequence of
\* patient_ids: an id is pushed when its record is visited, at the end of the
\* list, once per occurrence of the record whatever the lists already hold; a
\* record without patient_id is pushed on no list; the three decisions are
\* taken separately, so that a record may be on any combination of lists.
\* The lists returned are the lists so built.
C13_ListsAreSubsequences ==
    [][/\ cursor' = cursor + 1 =>
            LET patient == patientsArg[cursor']
                id == patient.patient_id
            IN /\ highRiskPatients' \in {highRiskPatients, Append(highRiskPatients, id)}
               /\ feverPatients' \in {feverPatients, Append(feverPatients, id)}
               /\ dataQualityIssues' \in {dataQualityIssues, Append(dataQualityIssues, id)}
               /\ ~HasId(patient) =>
                     UNCHANGED <<highRiskPatients, feverPatients, dataQualityIssues>>
               /\ HasId(patient) =>
                     /\ (highRiskPatients' # highRiskPatients) = (callback'.totalScore >= 4)
                     /\ (feverPatients' # feverPatients) =
                           (~callback'.temp.nan /\ callback'.temp.v >= 9960)
                     /\ (dataQualityIssues' # dataQualityIssues) =
                           (\/ callback'.bpRisk.hasIssue
                            \/ callback'.tempRisk.hasIssue
                            \/ callback'.ageRisk.hasIssue)
       /\ pc' = "processed" =>
            /\ cursor = Len(patientsArg)
            /\ results' = <<[high_risk_patients |-> highRiskPatients,
                             fever_patients |-> feverPatients,
                             data_quality_issues |-> dataQualityIssues]>>
            /\ results'[1] = processPatients(patientsArg)
            /\ IsSubsequenceOfIds(highRiskPatients)
            /\ IsSubsequenceOfIds(feverPatients)
            /\ IsSubsequenceOfIds(dataQualityIssues)]_vars

\* two records with the same id around a record without id: the id is twice
\* on the high-risk and fever lists, and the second record is on all three
C13_Witness ==
    /\ pc = "processed"
    /\ Len(patientsArg) = 3
    /\ HasId(patientsArg[1])
    /\ patientsArg[2].isObject /\ ~HasId(patientsArg[2])
    /\ patientsArg[3].patient_id = patientsArg[1].patient_id
    /\ patientsArg[3] # patientsArg[1]
    /\ results[1].high_risk_patients = <<IdA, IdA>>
    /\ results[1].fever_patients = <<IdA, IdA>>
    /\ results[1].data_quality_issues = <<IdA>>

\* C20: the fever list and the temperature score agree for every numeric
\* temperature, also between the band edges: a record with a patient_id is
\* pushed on the fever list if and only if its temperature component is valid
\* with a score of at least 1.
C20_FeverAgreesWithScore ==
    [][(/\ cursor' = cursor + 1
        /\ HasId(patientsArg[cursor'])
        /\ patientsArg[cursor'].temperature.t = "num") =>
          (feverPatients' = Append(feverPatients, patientsArg[cursor'].patient_id))
             = (~callback'.tempRisk.hasIssue /\ callback'.tempRisk.score >= 1)]_vars

====
